---- MODULE Spec2Model ----
(***************************************************************************)
(* DC_Bike_Rental_Streamlit.py: a Streamlit script that loads train.csv    *)
(* through a cached loader, derives calendar/category columns, filters the *)
(* frame by the sidebar's year and season multiselects and renders a fixed *)
(* sequence of chart panels.  One script run is a walk of pc from "load"   *)
(* to "done" (or "halted" when an exception escapes); a change of a widget *)
(* value starts the next run of the same session.                          *)
(***************************************************************************)
EXTENDS Integers, Sequences, FiniteSets, TLC

VARIABLES
    file,           \* train.csv on disk: a sequence of raw rows, or Absent
    cache,          \* what st.cache_data holds for load_data()
    reads,          \* number of times pd.read_csv has read the file
    session,        \* widget state of the session
    pc,             \* position of the current script run
    df,             \* the frame load_data() returned to this run
    year_filter,    \* value of the "Select Year" multiselect in this run
    season_filter,  \* value of the "Select Season" multiselect in this run
    df_filtered,    \* the filtered frame of this run
    page,           \* elements rendered so far by this run, in order
    exception       \* the exception that ended this run, or "none"

vars == <<file, cache, reads, session, pc, df, year_filter, season_filter,
          df_filtered, page, exception>>

\* ------------------------------------------------------------------ bounds
MaxRows == 2

\* ------------------------------------------------------------- input space
\* train.csv missing from the working directory
Absent  == [exists |-> FALSE, rows |-> <<>>]
\* nothing cached for load_data() yet
EmptyCache == [full |-> FALSE, value |-> <<>>]
\* no widget of the session has been touched yet
FreshSession == [touched |-> FALSE, year |-> {}, season |-> {}]
NaN     == "NaN"

Years        == {2011, 2012}
SeasonCodes  == 1..4
HoursOfDay   == 0..23

RawRow(y, h, s, wd, c) ==
    [datetime   |-> [year |-> y, month |-> 1, day |-> 1, hour |-> h],
     season     |-> s,
     workingday |-> wd,
     weather    |-> 1,
     count      |-> c]

\* rows that differ in the two filtered columns
CalendarRows == { RawRow(y, 8, s, 1, 10) : y \in Years, s \in SeasonCodes }
\* rows that differ in the working-day flag and the rental count
UsageRows    == { RawRow(y, 8, 1, wd, c) : y \in Years, wd \in {0, 1}, c \in {10, 30} }
\* rows that cover every hour of the day
HourRows     == { RawRow(y, h, s, 1, 10) : y \in Years, h \in HoursOfDay, s \in {1, 3} }

SeqsUpTo(S, n) == UNION { [1..k -> S] : k \in 1..n }

CsvContents ==
    SeqsUpTo(CalendarRows, MaxRows) \cup SeqsUpTo(UsageRows, MaxRows)
        \cup { <<r>> : r \in HourRows }

CsvFiles == { [exists |-> TRUE, rows |-> c] : c \in CsvContents }

\* ------------------------------------------------------- load_data (12-38)
\* season_map = {1:"Spring", 2:"Summer", 3:"Fall", 4:"Winter"}
season_map_merged == (1 :> "Spring" @@ 2 :> "Spring" @@ 3 :> "Fall" @@ 4 :> "Winter")
season_map == (1 :> "Spring" @@ 2 :> "Summer" @@ 3 :> "Fall" @@ 4 :> "Winter")

\* Series.map(dict): a value that is no key of the dict becomes NaN
MapValue(dict, v) == IF v \in DOMAIN dict THEN dict[v] ELSE NaN

get_period_inclusive(h) ==
    IF 0 <= h /\ h <= 6 THEN "Night"
    ELSE IF 6 <= h /\ h <= 12 THEN "Morning"
    ELSE IF 12 <= h /\ h <= 18 THEN "Afternoon"
    ELSE "Evening"
get_period(h) ==
    IF 0 <= h /\ h < 6 THEN "Night"
    ELSE IF 6 <= h /\ h < 12 THEN "Morning"
    ELSE IF 12 <= h /\ h < 18 THEN "Afternoon"
    ELSE "Evening"

\* one row of the frame load_data returns: the CSV columns, the pandas index
\* and the derived columns
DerivedRow(raw, i) ==
    [idx        |-> i - 1,
     datetime   |-> raw.datetime,
     season     |-> raw.season,
     workingday |-> raw.workingday,
     weather    |-> raw.weather,
     count      |-> raw.count,
     year       |-> raw.datetime.year,
     month      |-> raw.datetime.month,
     day        |-> raw.datetime.day,
     hour       |-> raw.datetime.hour,
     season_name |-> MapValue(season_map, raw.season),
     day_period |-> get_period(raw.datetime.hour)]

load_data(f) == [i \in 1..Len(f) |-> DerivedRow(f[i], i)]

\* @st.cache_data: the body runs only when nothing is cached for load_data()
CacheHitNever(c) == FALSE
CacheHit(c) == c.full

\* ------------------------------------------------------------ pandas helpers
Column(d, col) == [i \in 1..Len(d) |-> d[i][col]]

Values(s) == { s[i] : i \in 1..Len(s) }

Index(d) == { d[i].idx : i \in 1..Len(d) }

\* Series.unique(): the distinct values in order of first appearance
RECURSIVE Unique(_)
Unique(s) ==
    IF s = <<>> THEN <<>>
    ELSE LET init == Unique(SubSeq(s, 1, Len(s) - 1))
             last == s[Len(s)]
         IN  IF last \in Values(init) THEN init ELSE Append(init, last)

\* the keys of a groupby, ascending
RECURSIVE SortedKeys(_)
SortedKeys(S) ==
    IF S = {} THEN <<>>
    ELSE LET m == CHOOSE x \in S : \A y \in S : x <= y
         IN  <<m>> \o SortedKeys(S \ {m})

RECURSIVE Sum(_)
Sum(s) == IF s = <<>> THEN 0 ELSE s[1] + Sum(Tail(s))

\* Series.mean(): kept exact as sum over size; 0 over 0 is the NaN of an
\* empty series
Mean(s) == [sum |-> Sum(s), n |-> Len(s)]

\* d.groupby(key)["count"].mean(): one entry per key present, ascending
GroupMean(d, key) ==
    LET ks == SortedKeys(Values(Column(d, key)))
    IN  [k \in 1..Len(ks) |->
            [key  |-> ks[k],
             mean |-> Mean(Column(SelectSeq(d, LAMBDA r : r[key] = ks[k]), "count"))]]

\* ------------------------------------------------------ sidebar filter (49)
FilterMaskOr(r, years, seasons) == r.year \in years \/ r.season_name \in seasons
FilterMask(r, years, seasons) == r.year \in years /\ r.season_name \in seasons

Filter(d, years, seasons) == SelectSeq(d, LAMBDA r : FilterMask(r, years, seasons))

\* ------------------------------------------------------- ax.bar (line 87)
\* numpy broadcasting of the heights against the two labels: equal lengths
\* pair up, a single height is repeated, anything else raises ValueError
Broadcastable(labels, heights) == Len(heights) = Len(labels) \/ Len(heights) = 1

Bars(labels, heights) ==
    [i \in 1..Len(labels) |->
        [label  |-> labels[i],
         height |-> IF Len(heights) = 1 THEN heights[1] ELSE heights[i]]]

WorkingLabels == <<"Non-Working", "Working">>

\* ------------------------------------------------------------ page elements
Title == [kind |-> "title", name |-> "Washington D.C. Bike Rental Data Dashboard"]

Multiselect(label, column, options, value) ==
    [kind |-> "multiselect", name |-> label, column |-> column,
     options |-> options, value |-> value]

\* a chart (or table) and the index of the rows it was computed from
Panel(name, d) == [kind |-> "panel", name |-> name, index |-> Index(d)]

Success == [kind |-> "success",
            name |-> "All Assignment II visualizations loaded successfully!"]

\* an exception that escapes the script is shown by the framework in place
\* of the rest of the page
Traceback(e) == [kind |-> "exception", name |-> e]

\* the panels of one complete run, in script order
PanelOrder ==
    <<"preview", "distributions", "working", "monthly", "yearly", "weather",
      "hourly", "dayofweek", "seasonal", "dayperiod", "corr">>

\* ------------------------------------------------------------------- Init
Init ==
    /\ file \in CsvFiles \cup {Absent}
    /\ cache = EmptyCache
    /\ reads = 0
    /\ session = FreshSession
    /\ pc = "load"
    /\ df = <<>>
    /\ year_filter = {}
    /\ season_filter = {}
    /\ df_filtered = <<>>
    /\ page = <<Title>>
    /\ exception = "none"

Raise(e) ==
    /\ exception' = e
    /\ pc' = "halted"
    /\ page' = Append(page, Traceback(e))

\* ---------------------------------------------------------------- actions
\* line 40: df = load_data(), through st.cache_data
LoadData ==
    /\ pc = "load"
    /\ IF CacheHit(cache)
       THEN /\ df' = cache.value
            /\ pc' = "sidebar"
            /\ UNCHANGED <<cache, reads, page, exception>>
       ELSE IF ~file.exists
       THEN /\ Raise("FileNotFoundError")
            /\ UNCHANGED <<cache, reads, df>>
       ELSE /\ df' = load_data(file.rows)
            /\ cache' = [full |-> TRUE, value |-> load_data(file.rows)]
            /\ reads' = reads + 1
            /\ pc' = "sidebar"
            /\ UNCHANGED <<page, exception>>
    /\ UNCHANGED <<file, session, year_filter, season_filter, df_filtered>>

\* lines 45-49: the two multiselects and the filtered frame
SidebarFilters ==
    /\ pc = "sidebar"
    /\ LET years   == Unique(Column(df, "year"))
           seasons == Unique(Column(df, "season_name"))
           yf == IF session.touched THEN session.year ELSE Values(years)
           sf == IF session.touched THEN session.season ELSE Values(seasons)
       IN  /\ year_filter' = yf
           /\ season_filter' = sf
           /\ df_filtered' = Filter(df, yf, sf)
           /\ page' = page \o <<Multiselect("Select Year", "year", years, yf),
                                Multiselect("Select Season", "season_name", seasons, sf)>>
    /\ pc' = "preview"
    /\ UNCHANGED <<file, cache, reads, session, df, exception>>

\* a panel computed from df_filtered
RenderFiltered(at, name, next) ==
    /\ pc = at
    /\ page' = Append(page, Panel(name, df_filtered))
    /\ pc' = next
    /\ UNCHANGED <<file, cache, reads, session, df, year_filter, season_filter,
                   df_filtered, exception>>

\* lines 51-52
Preview == RenderFiltered("preview", "preview", "distributions")

\* lines 58-75: histogram and boxplot of each numerical column
Distributions == RenderFiltered("distributions", "distributions", "working")

\* lines 82-90: mean count per workingday group, drawn as two labelled bars
WorkingDayPanel ==
    /\ pc = "working"
    /\ LET mean_working == Column(GroupMean(df_filtered, "workingday"), "mean")
       IN  IF Broadcastable(WorkingLabels, mean_working)
           THEN /\ page' = Append(page,
                      [kind |-> "panel", name |-> "working",
                       index |-> Index(df_filtered),
                       bars |-> Bars(WorkingLabels, mean_working)])
                /\ pc' = "monthly"
                /\ UNCHANGED exception
           ELSE Raise("ValueError")
    /\ UNCHANGED <<file, cache, reads, session, df, year_filter, season_filter,
                   df_filtered>>

\* lines 97-107
MonthlyPanel == RenderFiltered("monthly", "monthly", "yearly")

\* lines 111-125: df[df["year"] == 2011] and df[df["year"] == 2012]
YearComparePanel ==
    /\ pc = "yearly"
    /\ page' = Append(page,
          Panel("yearly", SelectSeq(df, LAMBDA r : r.year = 2011)
                            \o SelectSeq(df, LAMBDA r : r.year = 2012)))
    /\ pc' = "weather"
    /\ UNCHANGED <<file, cache, reads, session, df, year_filter, season_filter,
                   df_filtered, exception>>

\* lines 132-143
WeatherPanel == RenderFiltered("weather", "weather", "hourly")

\* lines 150-160
HourlyPanel == RenderFiltered("hourly", "hourly", "dayofweek")

\* lines 167-179
DayOfWeekPanel == RenderFiltered("dayofweek", "dayofweek", "seasonal")

\* lines 186-203: one subplot per season of df (at most the four of the grid)
SeasonGridPanel ==
    /\ pc = "seasonal"
    /\ LET seasons == Unique(Column(df, "season_name"))
           shown   == { seasons[k] : k \in 1..(IF Len(seasons) < 4 THEN Len(seasons) ELSE 4) }
       IN  page' = Append(page,
              Panel("seasonal", SelectSeq(df, LAMBDA r : r.season_name \in shown)))
    /\ pc' = "dayperiod"
    /\ UNCHANGED <<file, cache, reads, session, df, year_filter, season_filter,
                   df_filtered, exception>>

\* lines 210-219
DayPeriodPanel == RenderFiltered("dayperiod", "dayperiod", "corr")

\* lines 226-239
CorrPanel == RenderFiltered("corr", "corr", "success")

\* line 242
ShowSuccess ==
    /\ pc = "success"
    /\ page' = Append(page, Success)
    /\ pc' = "done"
    /\ UNCHANGED <<file, cache, reads, session, df, year_filter, season_filter,
                   df_filtered, exception>>

\* the multiselects currently on the page
Widgets == { i \in DOMAIN page : page[i].kind = "multiselect" }

\* the user changes the value of a multiselect; the framework keeps the new
\* widget state in the session and runs the script again from the top
UserSelects ==
    /\ Widgets # {}
    /\ \E ys \in SUBSET Values(Unique(Column(df, "year"))),
          ss \in SUBSET Values(Unique(Column(df, "season_name"))) :
            /\ <<ys, ss>> # <<year_filter, season_filter>>
            /\ session' = [touched |-> TRUE, year |-> ys, season |-> ss]
    /\ pc' = "load"
    /\ df' = <<>>
    /\ year_filter' = {}
    /\ season_filter' = {}
    /\ df_filtered' = <<>>
    /\ page' = <<Title>>
    /\ exception' = "none"
    /\ UNCHANGED <<file, cache, reads>>

\* train.csv is removed from the working directory
RemoveFile ==
    /\ file.exists
    /\ file' = Absent
    /\ UNCHANGED <<cache, reads, session, pc, df, year_filter, season_filter,
                   df_filtered, page, exception>>

Next ==
    \/ LoadData
    \/ SidebarFilters
    \/ Preview
    \/ Distributions
    \/ WorkingDayPanel
    \/ MonthlyPanel
    \/ YearComparePanel
    \/ WeatherPanel
    \/ HourlyPanel
    \/ DayOfWeekPanel
    \/ SeasonGridPanel
    \/ DayPeriodPanel
    \/ CorrPanel
    \/ ShowSuccess
    \/ UserSelects
    \/ RemoveFile

Spec == Init /\ [][Next]_vars

\* ======================================================================
\* Properties
\* ======================================================================
\* load_data() has returned a frame to the current run
Loaded == pc # "load" /\ exception # "FileNotFoundError"

\* line 49 has run in the current run
Filtered == Loaded /\ pc # "sidebar"

\* the current run ended at line 40, before any widget
LoadFailed == pc = "halted" /\ ~Loaded

Selected(r) == r.year \in year_filter /\ r.season_name \in season_filter

Rejected == SelectSeq(df, LAMBDA r : ~Selected(r))

PanelsOnPage == SelectSeq(page, LAMBDA e : e.kind = "panel")

\* C1: df_filtered holds exactly the rows of the loaded frame whose year is
\* in the year selection and whose season name is in the season selection:
\* every row of it satisfies both, every such loaded row is in it once and
\* unchanged, and with the rejected rows (disjoint) it recovers the frame.
C1_FilterExact ==
    Filtered =>
        /\ \A i \in DOMAIN df_filtered : Selected(df_filtered[i])
        /\ \A j \in DOMAIN df :
              Selected(df[j]) =>
                 /\ Cardinality({ i \in DOMAIN df_filtered :
                                     df_filtered[i].idx = df[j].idx }) = 1
                 /\ \E i \in DOMAIN df_filtered : df_filtered[i] = df[j]
        /\ Index(df_filtered) \cap Index(Rejected) = {}
        /\ Index(df_filtered) \cup Index(Rejected) = Index(df)
        /\ Len(df_filtered) + Len(Rejected) = Len(df)
        /\ Values(df_filtered) \cup Values(Rejected) = Values(df)

\* a rerun whose selection keeps one row and rejects another
C1_Witness ==
    /\ Filtered
    /\ session.touched
    /\ df_filtered # <<>>
    /\ Rejected # <<>>
    /\ \E j \in DOMAIN df : df[j].year \in year_filter /\ ~Selected(df[j])

\* the four buckets by their boundaries [0,6), [6,12), [12,18), [18,24)
BucketOf(h) ==
    CASE h \in 0..5   -> "Night"
      [] h \in 6..11  -> "Morning"
      [] h \in 12..17 -> "Afternoon"
      [] h \in 18..23 -> "Evening"

\* C2: for every hour 0..23 get_period returns the bucket of the fixed
\* boundaries, and every loaded row's day_period is the bucket of its hour.
C2_DayPeriod ==
    /\ \A h \in HoursOfDay : get_period(h) = BucketOf(h)
    /\ Loaded => \A i \in DOMAIN df :
                    /\ df[i].hour \in HoursOfDay
                    /\ df[i].day_period = BucketOf(df[i].hour)

\* a loaded row on a bucket boundary
C2_Witness ==
    /\ Loaded
    /\ \E i \in DOMAIN df : df[i].hour = 18 /\ df[i].day_period = "Evening"

\* C3: a missing train.csv is handled: a message is shown, rendering halts
\* with no widget, panel or success message, and no exception escapes.
C3_MissingFileHandled ==
    LoadFailed =>
        /\ exception = "none"
        /\ \E i \in DOMAIN page : page[i].kind = "error"
        /\ \A i \in DOMAIN page : page[i].kind \notin {"exception", "multiselect", "panel", "success"}

\* C4: the sidebar has an hour-range slider and every row of the filtered
\* frame lies within the selected range.
C4_HourRangeFilter ==
    Filtered =>
        \E i \in DOMAIN page :
            /\ page[i].kind = "slider"
            /\ page[i].column = "hour"
            /\ \A k \in DOMAIN df_filtered :
                  /\ page[i].value[1] <= df_filtered[k].hour
                  /\ df_filtered[k].hour <= page[i].value[2]

\* C5: season_map is a bijection between the codes 1..4 and four names, and
\* every loaded row's season_name is the name of its season code.
C5_SeasonBijection ==
    /\ DOMAIN season_map = SeasonCodes
    /\ \A a, b \in SeasonCodes : a # b => season_map[a] # season_map[b]
    /\ Cardinality({ season_map[c] : c \in SeasonCodes }) = 4
    /\ Loaded => \A i \in DOMAIN df :
                    /\ df[i].season \in SeasonCodes
                    /\ df[i].season_name = season_map[df[i].season]

\* a loaded frame with two rows of different seasons and different names
C5_Witness ==
    /\ Loaded
    /\ \E i, j \in DOMAIN df :
          /\ df[i].season # df[j].season
          /\ df[i].season_name # df[j].season_name
          /\ df[i].season_name # NaN

\* C6: every loaded row carries a weather name derived from its weather code.
C6_WeatherName ==
    Loaded => \A i \in DOMAIN df :
                 /\ "weather_name" \in DOMAIN df[i]
                 /\ df[i].weather_name # NaN

\* C7: within a session the file is read at most once, every run works on
\* the cached frame, and no step of any run changes the cached frame.
C7_LoadedOnce ==
    /\ [](reads <= 1)
    /\ [](Loaded => (cache.full /\ df = cache.value))
    /\ [][cache.full => cache' = cache]_vars

\* a rerun that completed after the file had been removed
C7_Witness ==
    /\ session.touched
    /\ pc = "done"
    /\ ~file.exists
    /\ reads = 1
    /\ Len(df_filtered) < Len(df)

\* C8: no panel aggregates a row that the selection excludes.
C8_PanelsUseFiltered ==
    \A i \in DOMAIN page :
        page[i].kind = "panel" => page[i].index \subseteq Index(df_filtered)

\* C9: once the file has loaded, a run goes through all panels in the fixed
\* order and ends with the success message, whatever the selection.
C9_RenderCompletes ==
    /\ Loaded => exception = "none"
    /\ \A i \in DOMAIN page :
          page[i].kind = "success" =>
              /\ i = Len(page)
              /\ Column(PanelsOnPage, "name") = PanelOrder
    /\ pc = "done" => page[Len(page)].kind = "success"

\* C10: the bar labelled "Non-Working" shows the mean count of the filtered
\* rows with workingday = 0 and the bar labelled "Working" that of the
\* filtered rows with workingday = 1.
C10_BarLabels ==
    \A i \in DOMAIN page :
        (page[i].kind = "panel" /\ page[i].name = "working") =>
            \A b \in DOMAIN page[i].bars :
                LET wd == IF page[i].bars[b].label = "Non-Working" THEN 0 ELSE 1
                IN  page[i].bars[b].height =
                       Mean(Column(SelectSeq(df_filtered,
                                             LAMBDA r : r.workingday = wd), "count"))

====
